---- MODULE Spec2Model ----
(***************************************************************************)
(* Session lifecycle of badbuddy-be: CreateSession, UpdateSession,         *)
(* JoinSession, LeaveSession and CancelSession of                          *)
(* internal/usecase/session/usecase.go over the session repository of      *)
(* internal/repositories/postgres/session.go.                              *)
(*                                                                         *)
(* Every request is a process.  One step of a process is one repository    *)
(* call together with the local computation that follows it, so that the   *)
(* interleavings of the model are the interleavings of the SQL statements  *)
(* of concurrent requests (the code opens no transaction and takes no      *)
(* lock).                                                                  *)
(*                                                                         *)
(* Time.  An instant is a number of minutes; day d starts at d*MinPerDay.  *)
(* A time of day parsed with layout "15:04" is the number of minutes since *)
(* 0000-01-01 00:00 UTC (Go gives such a value the year 0), and the zero   *)
(* time.Time is ZeroTime in the same scale.  time.Local is taken to be UTC.*)
(* `now` is the wall clock; it only moves forward, between the instants of *)
(* TimePoints.  ts[i] orders the timestamps written to joined_at in        *)
(* session i: every reading of the clock for a joined_at is later than the *)
(* previous one (joined_at is only ever compared within one session).      *)
(***************************************************************************)
EXTENDS Integers, Sequences, FiniteSets, TLC

VARIABLES sessions, ts, now, procs, mode, served, okJoin, scn, fin, fout

vars == <<sessions, ts, now, procs, mode, served, okJoin, scn, fin, fout>>

----------------------------------------------------------------------------
(* Bounds *)

NUsers == 3
NProcs == 2
MaxSessions == 2
MaxRequests == 5

Users == 1..NUsers
Procs == 1..NProcs

----------------------------------------------------------------------------
(* Program constants *)

MinPerDay == 1440
MinSessionMinutes == 30
ListLimit == 100
ZeroTime == 527040

----------------------------------------------------------------------------
(* Environment: the calendar and the venue table (venues are maintained by *)
(* the venue use case, which is outside this model).                       *)

Today == 100
SessDay == 102
DaysIn3Months == 92

\* T0: a morning two days before the session day; T1: midnight before the
\* session day (the deadline of a session with 24 deadline hours); T2: the
\* session day, after every window has started
T0 == Today * MinPerDay + 540
T1 == (SessDay - 1) * MinPerDay
T2 == SessDay * MinPerDay + 700

TimePoints == {T0, T1, T2}

\* venue 1: active, open_range = []; venue 2: active, one range 08:00-22:00;
\* venue 3: inactive; venue 4: active, two ranges 08:00-12:00 and 13:00-22:00.
\* An open range carries its open and close time of day.
VenueTable ==
    <<[status |-> "active", openRange |-> <<>>],
      [status |-> "active", openRange |-> <<[open |-> 480, close |-> 1320]>>],
      [status |-> "inactive", openRange |-> <<>>],
      [status |-> "active", openRange |-> <<[open |-> 480, close |-> 720],
                                            [open |-> 780, close |-> 1320]>>]>>

----------------------------------------------------------------------------
(* Pure helpers of the use case *)

Hour(t) == (t % MinPerDay) \div 60
Minute(t) == t % 60

\* time.Date(d.Year(), d.Month(), d.Day(), t.Hour(), t.Minute(), 0, 0, time.Local)
DateTime(date, t) == date * MinPerDay + Hour(t) * 60 + Minute(t)

\* time.Parse("15:04", x.String()): the String() form of a time.Time starts
\* with the year, the layout fails on it, the error is dropped and the zero
\* time.Time is used.
ParseClockOfString(t) == ZeroTime

CountIf(parts, st) == Cardinality({i \in DOMAIN parts : parts[i].status = st})

\* countParticipantsByStatus that counts every entry that is not pending as
\* confirmed
countParticipantsByStatus_notPending(parts) ==
    [confirmed |-> Len(parts) - CountIf(parts, "pending"),
     pending |-> CountIf(parts, "pending")]

countParticipantsByStatus(parts) ==
    [confirmed |-> CountIf(parts, "confirmed"), pending |-> CountIf(parts, "pending")]

\* isParticipantInSession that passes over the cancelled entries
isParticipantInSession_skipCancelled(parts, u) ==
    LET idx == {i \in DOMAIN parts : parts[i].user = u /\ parts[i].status # "cancelled"}
    IN  IF idx = {} THEN [found |-> FALSE, status |-> ""]
        ELSE [found |-> TRUE,
              status |-> parts[CHOOSE i \in idx : \A j \in idx : i <= j].status]

isParticipantInSession(parts, u) ==
    LET idx == {i \in DOMAIN parts : parts[i].user = u}
    IN  IF idx = {} THEN [found |-> FALSE, status |-> ""]
        ELSE [found |-> TRUE,
              status |-> parts[CHOOSE i \in idx : \A j \in idx : i <= j].status]

\* the promotion loop taking the last pending entry of the list
FirstPending_last(parts) ==
    LET idx == {i \in DOMAIN parts : parts[i].status = "pending"}
    IN  IF idx = {} THEN 0 ELSE CHOOSE i \in idx : \A j \in idx : i >= j

\* the promotion loop of LeaveSession: the first pending entry of the list,
\* 0 when there is none
FirstPending(parts) ==
    LET idx == {i \in DOMAIN parts : parts[i].status = "pending"}
    IN  IF idx = {} THEN 0 ELSE CHOOSE i \in idx : \A j \in idx : i <= j

\* validateParticipantLimit that lets one confirmed participant too many pass
validateParticipantLimit_offByOne(confirmedCount, maxParticipants) ==
    IF confirmedCount > maxParticipants + 1 THEN "limit_exceeded" ELSE "ok"

validateParticipantLimit(confirmedCount, maxParticipants) ==
    IF confirmedCount > maxParticipants THEN "limit_exceeded" ELSE "ok"

\* now.Truncate(24 * time.Hour)
TruncateDay(t) == (t \div MinPerDay) * MinPerDay

validateSessionTime(date, startTime, endTime, venueOpen, venueClose, t) ==
    IF date * MinPerDay < TruncateDay(t) THEN "too_soon"
    ELSE IF DateTime(date, endTime) - DateTime(date, startTime) < MinSessionMinutes
         THEN "too_short"
    ELSE IF date * MinPerDay > t + DaysIn3Months * MinPerDay THEN "too_far"
    ELSE IF startTime > endTime THEN "inverted"
    ELSE IF startTime < venueOpen \/ endTime > venueClose THEN "outside_hours"
    ELSE "ok"

\* the loop of CreateSession over the venue's open ranges: the first error
RECURSIVE ValidateRanges(_, _, _, _, _, _)
ValidateRanges(ranges, i, date, startTime, endTime, t) ==
    IF i > Len(ranges) THEN "ok"
    ELSE LET r == validateSessionTime(date, startTime, endTime,
                                      ParseClockOfString(ranges[i].open),
                                      ParseClockOfString(ranges[i].close), t)
         IN  IF r # "ok" THEN r
             ELSE ValidateRanges(ranges, i + 1, date, startTime, endTime, t)

\* the test with a closed end: a window that ends when the other starts conflicts
Overlaps_closed(pDate, pStart, pEnd, eDate, eStart, eEnd) ==
    /\ DateTime(pDate, pStart) <= DateTime(eDate, eEnd)
    /\ DateTime(eDate, eStart) < DateTime(pDate, pEnd)

\* the test of the conflict loop on one existing session
Overlaps(pDate, pStart, pEnd, eDate, eStart, eEnd) ==
    /\ DateTime(pDate, pStart) < DateTime(eDate, eEnd)
    /\ DateTime(eDate, eStart) < DateTime(pDate, pEnd)

----------------------------------------------------------------------------
(* The store: play_sessions, session_courts and session_participants.      *)
(* sessions[i] is the play_sessions row with id i together with its        *)
(* session_courts rows (courts) and its session_participants rows (parts,  *)
(* kept in the order of joined_at, the order every query on them asks for).*)

NoSess == [host |-> 0, venue |-> 0, date |-> 0, start |-> 0, end |-> 0, max |-> 0,
           allow |-> FALSE, dl |-> 0, status |-> ""]

NoReq == [venue |-> 0, date |-> 0, start |-> 0, end |-> 0, courts |-> <<>>, max |-> 0,
          allow |-> FALSE, dl |-> 0, status |-> ""]

Idle == [pc |-> "idle", op |-> "none", sid |-> 0, uid |-> 0, req |-> NoReq,
         sess |-> NoSess, parts |-> <<>>, st |-> "", cnt |-> 0, i |-> 0, jat |-> 0,
         res |-> "", late |-> FALSE, n0 |-> 0]

\* the play_sessions columns GetByID scans into models.Session (CourtIDs is
\* db:"-" and stays empty)
RowOf(s) == [host |-> s.host, venue |-> s.venue, date |-> s.date, start |-> s.start,
             end |-> s.end, max |-> s.max, allow |-> s.allow, dl |-> s.dl,
             status |-> s.status]

GetParticipants(sid) == sessions[sid].parts

InsertByJoinedAt(parts, row) ==
    LET Before(r) == r.joinedAt <= row.joinedAt
        After(r) == r.joinedAt > row.joinedAt
    IN  SelectSeq(parts, Before) \o <<row>> \o SelectSeq(parts, After)

\* INSERT INTO session_participants
AddParticipant(store, sid, u, st, jat) ==
    [store EXCEPT ![sid].parts =
        InsertByJoinedAt(@, [user |-> u, status |-> st, joinedAt |-> jat,
                             cancelledAt |-> -1])]

\* UPDATE session_participants SET status, joined_at, cancelled_at
\* WHERE session_id AND user_id; stamp is NOW() as joined_at, t as cancelled_at
UpdateParticipantStatus(store, sid, u, st, stamp, t) ==
    LET Other(r) == r.user # u
        Mine(r) == r.user = u
        Set(r) == [r EXCEPT !.status = st,
                            !.joinedAt = IF st = "confirmed" THEN stamp ELSE @,
                            !.cancelledAt = IF st = "cancelled" THEN t ELSE @]
        mine == SelectSeq(store[sid].parts, Mine)
        upd == [k \in DOMAIN mine |-> Set(mine[k])]
    IN  IF st = "confirmed"
        THEN [store EXCEPT ![sid].parts = SelectSeq(@, Other) \o upd]
        ELSE [store EXCEPT ![sid].parts = [k \in DOMAIN @ |->
                                             IF @[k].user = u THEN Set(@[k]) ELSE @[k]]]

RowsOf(sid, u) == {k \in DOMAIN sessions[sid].parts : sessions[sid].parts[k].user = u}

\* UPDATE play_sessions SET ... WHERE id; the session_courts rows are
\* replaced when CourtIDs is not empty
RepoUpdate(store, sid, s, courtIDs) ==
    [store EXCEPT ![sid] =
        [@ EXCEPT !.date = s.date, !.start = s.start, !.end = s.end, !.max = s.max,
                  !.allow = s.allow, !.dl = s.dl, !.status = s.status,
                  !.courts = IF Len(courtIDs) > 0
                             THEN {courtIDs[k] : k \in DOMAIN courtIDs} ELSE @]]

OnDate(date) == {i \in DOMAIN sessions : sessions[i].date = date}

\* List with the date filter, limit ListLimit, offset 0: the first ListLimit
\* rows in the order of start_time, rows of equal start_time in any order.
\* The set of the possible results, each a set of session ids.
ListResults(date) ==
    LET all == OnDate(date)
    IN  IF Cardinality(all) <= ListLimit THEN {all}
        ELSE LET starts == {sessions[i].start : i \in all}
                 Below(v) == {i \in all : sessions[i].start < v}
                 At(v) == {i \in all : sessions[i].start = v}
                 cut == CHOOSE v \in starts :
                            /\ Cardinality(Below(v)) < ListLimit
                            /\ Cardinality(Below(v)) + Cardinality(At(v)) >= ListLimit
                 need == ListLimit - Cardinality(Below(cut))
             IN  IF Cardinality(At(cut)) = need THEN {Below(cut) \cup At(cut)}
                 ELSE {Below(cut) \cup X : X \in {Y \in SUBSET At(cut) : Cardinality(Y) = need}}

\* checkSessionConflict without the test of the status
checkSessionConflict_anyStatus(date, startTime, endTime, courtID, listed) ==
    IF \E i \in listed :
           Overlaps(date, startTime, endTime,
                    sessions[i].date, sessions[i].start, sessions[i].end)
    THEN "court_booked" ELSE "ok"

\* the loop of checkSessionConflict over the listed sessions; courtID is a
\* parameter of the function that its body never reads
checkSessionConflict(date, startTime, endTime, courtID, listed) ==
    IF \E i \in listed :
           /\ sessions[i].status # "cancelled"
           /\ Overlaps(date, startTime, endTime,
                       sessions[i].date, sessions[i].start, sessions[i].end)
    THEN "court_booked" ELSE "ok"

\* canJoinSession that admits open sessions only
canJoinSession_openOnly(s, t) ==
    IF s.status # "open" THEN "not_joinable"
    ELSE IF t > DateTime(s.date, s.start) THEN "already_started"
    ELSE "ok"

canJoinSession(s, t) ==
    IF s.status # "open" /\ s.status # "full" THEN "not_joinable"
    ELSE IF t > DateTime(s.date, s.start) THEN "already_started"
    ELSE "ok"

\* canUpdateSession without the test of the start of the session
canUpdateSession_noTimeTest(s, t) ==
    IF s.status = "cancelled" THEN "cancelled"
    ELSE IF s.status = "completed" THEN "completed"
    ELSE "ok"

canUpdateSession(s, t) ==
    IF s.status = "cancelled" THEN "cancelled"
    ELSE IF s.status = "completed" THEN "completed"
    ELSE IF t > DateTime(s.date, s.start) THEN "already_started"
    ELSE "ok"

\* the cancellation policy of LeaveSession; dl = -1 stands for a nil deadline
checkCancellationPolicy(s, t) ==
    IF ~s.allow THEN "cancellation_not_allowed"
    ELSE IF s.dl # -1 /\ t > s.date * MinPerDay - s.dl * 60 THEN "deadline_passed"
    ELSE "ok"

----------------------------------------------------------------------------
(* Requests.  mode names the setting a behaviour runs in and with it the   *)
(* requests that are sent: "roster" sends every kind of request to one     *)
(* session, one request at a time; "conc" does so with NProcs requests     *)
(* served concurrently; "promo" sends Join and Leave requests of one more  *)
(* user to one session, one request at a time; "conflict" creates, updates *)
(* and cancels up to MaxSessions sessions on one date, one request at a    *)
(* time; "bulk" creates and cancels sessions on one date, one request at  *)
(* a time, until the date holds more sessions than one List call returns;  *)
(* "fault" creates sessions, one request at a time, on a database whose     *)
(* INSERT statements may fail; "race" sends Join and Leave requests to one  *)
(* session, NProcs of them served concurrently once the session and its    *)
(* host are stored; "leaves" sends Join and Leave requests of two more     *)
(* users to one session of three places, NProcs of them served             *)
(* concurrently while two participants are pending and one at a time       *)
(* otherwise; "creates" creates sessions on one date with NProcs requests  *)
(* served concurrently.                                                    *)

WinA == [start |-> 600, end |-> 660]
WinB == [start |-> 630, end |-> 690]
WinC == [start |-> 660, end |-> 720]

Hosts == {1}

\* the number of requests served at a time
MaxConc == IF mode \in {"conc", "creates"} THEN NProcs
           ELSE IF /\ mode = "race" /\ sessions # <<>>
                   /\ \A sid \in DOMAIN sessions : Len(sessions[sid].parts) > 0
                THEN NProcs
           ELSE IF /\ mode = "leaves" /\ sessions # <<>>
                   /\ \A sid \in DOMAIN sessions :
                          CountIf(sessions[sid].parts, "pending") >= 2
                THEN NProcs
                ELSE 1

CreateReq(v, w, cs, a, d) ==
    [venue |-> v, date |-> SessDay, start |-> w.start, end |-> w.end, courts |-> cs,
     max |-> 2, allow |-> a, dl |-> d, status |-> ""]

CreateReqs ==
    IF mode = "creates"
    THEN {CreateReq(1, w, cs, TRUE, 24) : w \in {WinA, WinB, WinC},
                                          cs \in {<<1>>, <<2>>, <<1, 2>>}}
    ELSE IF mode = "leaves"
    THEN {[CreateReq(1, WinA, <<1>>, TRUE, 24) EXCEPT !.max = 3]}
    ELSE IF mode = "conflict"
    THEN {CreateReq(1, w, cs, TRUE, 24) : w \in {WinA, WinB, WinC},
                                          cs \in {<<1>>, <<2>>, <<1, 2>>}}
         \cup {CreateReq(2, WinA, <<1>>, TRUE, 24), CreateReq(3, WinA, <<1>>, TRUE, 24),
               CreateReq(4, WinA, <<1>>, TRUE, 24)}
    ELSE IF mode = "bulk"
    THEN {CreateReq(1, IF Len(sessions) < ListLimit THEN WinA ELSE WinC, <<1>>, TRUE, 24)}
    ELSE IF mode = "fault"
    THEN {CreateReq(1, w, cs, TRUE, 24) : w \in {WinA, WinC}, cs \in {<<1>>, <<1, 2>>}}
    ELSE {CreateReq(1, WinA, <<1>>, TRUE, 24)}

SessionCap == IF mode \in {"conflict", "fault", "creates"} THEN MaxSessions
              ELSE IF mode = "bulk" THEN ListLimit + MaxSessions ELSE 1

\* the users who send Join and Leave requests
Members == IF mode \in {"conflict", "bulk", "fault", "creates"} THEN {}
           ELSE IF mode = "promo" THEN 1..(NUsers + 1)
           ELSE IF mode = "leaves" THEN (1..(NUsers + 2)) \ Hosts
           ELSE IF mode \in {"conc", "race"} THEN Users \ Hosts ELSE Users

\* the users who send Cancel and Update requests: the host and another one
Callers == IF mode \in {"conc", "bulk"} THEN {1} ELSE {1, 2}

Active == {p \in Procs : procs[p].pc # "idle"}

\* a request is taken by the first idle worker when fewer than MaxConc are busy
CanStart(p) ==
    /\ procs[p].pc = "idle"
    /\ \A q \in Procs : q < p => procs[q].pc # "idle"
    /\ Cardinality(Active) < MaxConc
    /\ mode = "conc" => served < MaxRequests

\* the number of requests received, counted where it is bounded
Served == IF mode = "conc" THEN served + 1 ELSE served

Finish(p, r) == [procs EXCEPT ![p].pc = "done", ![p].res = r]

----------------------------------------------------------------------------
(* The scenario of CreateSession, JoinSession X, JoinSession Y,            *)
(* LeaveSession X, CancelSession on a session of two places: scn counts    *)
(* the requests of the scenario received so far, and is -1 as soon as any  *)
(* other request was received.                                             *)

ScnUsers == <<1, 2, 3>>
ScnHost == ScnUsers[1]
ScnX == ScnUsers[2]
ScnY == ScnUsers[3]

ScnStep(k, op, sid, uid, rq) ==
    \/ k = 0 /\ op = "create" /\ uid = ScnHost /\ rq.venue = 1 /\ rq.max = 2
             /\ rq.allow /\ sessions = <<>>
    \/ k = 1 /\ op = "join" /\ sid = 1 /\ uid = ScnX
             /\ now <= DateTime(sessions[1].date, sessions[1].start)
    \/ k = 2 /\ op = "join" /\ sid = 1 /\ uid = ScnY
             /\ now <= DateTime(sessions[1].date, sessions[1].start)
    \/ k = 3 /\ op = "leave" /\ sid = 1 /\ uid = ScnX
             /\ now < sessions[1].date * MinPerDay - sessions[1].dl * 60
    \/ k = 4 /\ op = "cancel" /\ sid = 1 /\ uid = ScnHost

ScnAfter(op, sid, uid, rq) ==
    IF scn >= 0 /\ ScnStep(scn, op, sid, uid, rq) THEN scn + 1 ELSE -1

----------------------------------------------------------------------------
(* CreateSession *)

CreateStart(p) ==
    /\ CanStart(p)
    /\ Len(sessions) + Cardinality({q \in Procs : procs[q].op = "create"}) < SessionCap
    /\ \E h \in Hosts, rq \in CreateReqs :
         LET venue == VenueTable[rq.venue]
             v == IF venue.status # "active" THEN "venue_not_active"
                  ELSE ValidateRanges(venue.openRange, 1, rq.date, rq.start, rq.end, now)
             me == [Idle EXCEPT !.op = "create", !.uid = h, !.req = rq,
                                !.n0 = Len(sessions)]
         IN  /\ procs' = [procs EXCEPT ![p] =
                    IF v # "ok" THEN [me EXCEPT !.pc = "done", !.res = v]
                    ELSE [me EXCEPT !.pc = "c_conflict", !.i = 1]]
             /\ scn' = ScnAfter("create", 0, h, rq)
             /\ served' = Served
    /\ UNCHANGED <<sessions, ts, now, mode, okJoin, fin, fout>>

\* one iteration of the loop over req.CourtIDs: checkSessionConflict
CreateConflict(p) ==
    /\ procs[p].pc = "c_conflict"
    /\ LET me == procs[p]
           rq == me.req
       IN  \E listed \in ListResults(rq.date) :
             LET c == checkSessionConflict(rq.date, rq.start, rq.end,
                                           rq.courts[me.i], listed)
             IN  procs' = IF c # "ok" THEN Finish(p, c)
                          ELSE IF me.i < Len(rq.courts)
                               THEN [procs EXCEPT ![p].i = me.i + 1]
                               ELSE [procs EXCEPT ![p].pc = "c_insert"]
    /\ UNCHANGED <<sessions, ts, now, mode, served, okJoin, scn, fin, fout>>

\* sessionRepo.Create: INSERT INTO play_sessions
CreateInsert(p) ==
    /\ procs[p].pc = "c_insert"
    /\ LET me == procs[p]
           rq == me.req
           row == [host |-> me.uid, venue |-> rq.venue, date |-> rq.date,
                   start |-> rq.start, end |-> rq.end, max |-> rq.max,
                   allow |-> rq.allow, dl |-> rq.dl, status |-> "open",
                   courts |-> {}, parts |-> <<>>]
       IN  /\ sessions' = Append(sessions, row)
           /\ ts' = Append(ts, 0)
           /\ procs' = [procs EXCEPT ![p].pc = "c_court", ![p].i = 1,
                                     ![p].sid = Len(sessions) + 1]
    /\ UNCHANGED <<now, mode, served, okJoin, scn, fin, fout>>

\* sessionRepo.Create: one INSERT INTO session_courts; after the last one
\* the host's JoinedAt is read from the clock
CreateCourt(p) ==
    /\ procs[p].pc = "c_court"
    /\ LET me == procs[p]
           last == me.i = Len(me.req.courts)
       IN  /\ sessions' = [sessions EXCEPT ![me.sid].courts = @ \cup {me.req.courts[me.i]}]
           /\ ts' = IF last THEN [ts EXCEPT ![me.sid] = @ + 1] ELSE ts
           /\ procs' = IF last
                       THEN [procs EXCEPT ![p].pc = "c_host", ![p].jat = ts[me.sid] + 1]
                       ELSE [procs EXCEPT ![p].i = me.i + 1]
    /\ UNCHANGED <<now, mode, served, okJoin, scn, fin, fout>>

\* an INSERT INTO session_courts returns an error: sessionRepo.Create and
\* CreateSession return it
CreateCourtFail(p) ==
    /\ procs[p].pc = "c_court"
    /\ procs' = Finish(p, "create_failed")
    /\ UNCHANGED <<sessions, ts, now, mode, served, okJoin, scn, fin, fout>>

\* AddParticipant for the host returns an error: CreateSession returns it
CreateHostFail(p) ==
    /\ procs[p].pc = "c_host"
    /\ procs' = Finish(p, "add_host_failed")
    /\ UNCHANGED <<sessions, ts, now, mode, served, okJoin, scn, fin, fout>>

\* CreateSession that adds the host as pending
CreateHost_pending(p) ==
    /\ procs[p].pc = "c_host"
    /\ LET me == procs[p]
       IN  /\ sessions' = AddParticipant(sessions, me.sid, me.uid, "pending", me.jat)
           /\ procs' = Finish(p, "ok")
    /\ UNCHANGED <<ts, now, mode, served, okJoin, scn, fin, fout>>

\* AddParticipant for the host, then GetByID for the response
CreateHost(p) ==
    /\ procs[p].pc = "c_host"
    /\ LET me == procs[p]
       IN  /\ sessions' = AddParticipant(sessions, me.sid, me.uid, "confirmed", me.jat)
           /\ procs' = Finish(p, "ok")
    /\ UNCHANGED <<ts, now, mode, served, okJoin, scn, fin, fout>>

----------------------------------------------------------------------------
(* JoinSession *)

\* GetByID, canJoinSession
JoinStart(p) ==
    /\ CanStart(p)
    /\ \E sid \in DOMAIN sessions, u \in Members :
         LET s == RowOf(sessions[sid])
             c == canJoinSession(s, now)
             me == [Idle EXCEPT !.op = "join", !.sid = sid, !.uid = u, !.sess = s,
                                !.late = (<<sid, u>> \in okJoin)]
         IN  /\ procs' = [procs EXCEPT ![p] =
                    IF c # "ok" THEN [me EXCEPT !.pc = "done", !.res = c]
                    ELSE [me EXCEPT !.pc = "j_read"]]
             /\ scn' = ScnAfter("join", sid, u, NoReq)
             /\ served' = Served
    /\ UNCHANGED <<sessions, ts, now, mode, okJoin, fin, fout>>

\* JoinSession that inserts the participant before the membership test
JoinRead_addFirst(p) ==
    /\ procs[p].pc = "j_read"
    /\ LET me == procs[p]
           parts == GetParticipants(me.sid)
           in == isParticipantInSession(parts, me.uid)
           confirmedCount == countParticipantsByStatus(parts).confirmed
           status == IF confirmedCount >= me.sess.max THEN "pending" ELSE "confirmed"
       IN  /\ sessions' = AddParticipant(sessions, me.sid, me.uid, status, ts[me.sid] + 1)
           /\ ts' = [ts EXCEPT ![me.sid] = @ + 1]
           /\ procs' = IF in.found
                       THEN Finish(p, IF in.status = "cancelled"
                                      THEN "previously_cancelled" ELSE "already_joined")
                       ELSE Finish(p, "ok")
    /\ UNCHANGED <<now, mode, served, okJoin, scn, fin, fout>>

\* GetParticipants, the membership test, the choice of the status and the
\* reading of the clock for JoinedAt
JoinRead(p) ==
    /\ procs[p].pc = "j_read"
    /\ LET me == procs[p]
           parts == GetParticipants(me.sid)
           in == isParticipantInSession(parts, me.uid)
           confirmedCount == countParticipantsByStatus(parts).confirmed
           status == IF confirmedCount >= me.sess.max THEN "pending" ELSE "confirmed"
       IN  IF in.found
           THEN /\ procs' = Finish(p, IF in.status = "cancelled"
                                      THEN "previously_cancelled" ELSE "already_joined")
                /\ ts' = ts
           ELSE /\ procs' = [procs EXCEPT ![p].pc = "j_add", ![p].parts = parts,
                                          ![p].cnt = confirmedCount, ![p].st = status,
                                          ![p].jat = ts[me.sid] + 1]
                /\ ts' = [ts EXCEPT ![me.sid] = @ + 1]
    /\ UNCHANGED <<sessions, now, mode, served, okJoin, scn, fin, fout>>

\* AddParticipant
JoinAdd(p) ==
    /\ procs[p].pc = "j_add"
    /\ LET me == procs[p]
           toFull == me.st = "confirmed" /\ me.cnt + 1 >= me.sess.max
       IN  /\ sessions' = AddParticipant(sessions, me.sid, me.uid, me.st, me.jat)
           /\ procs' = IF toFull
                       THEN [procs EXCEPT ![p].pc = "j_update"]
                       ELSE Finish(p, "ok")
           /\ okJoin' = IF toFull THEN okJoin ELSE okJoin \cup {<<me.sid, me.uid>>}
    /\ UNCHANGED <<ts, now, mode, served, scn, fin, fout>>

\* JoinSession that returns without the Update to full
JoinUpdate_noWrite(p) ==
    /\ procs[p].pc = "j_update"
    /\ procs' = Finish(p, "ok")
    /\ okJoin' = okJoin \cup {<<procs[p].sid, procs[p].uid>>}
    /\ UNCHANGED <<sessions, ts, now, mode, served, scn, fin, fout>>

\* sessionRepo.Update with the session read at the start, status full
JoinUpdate(p) ==
    /\ procs[p].pc = "j_update"
    /\ LET me == procs[p]
       IN  /\ sessions' = RepoUpdate(sessions, me.sid,
                                     [me.sess EXCEPT !.status = "full"], <<>>)
           /\ procs' = Finish(p, "ok")
           /\ okJoin' = okJoin \cup {<<me.sid, me.uid>>}
    /\ UNCHANGED <<ts, now, mode, served, scn, fin, fout>>

----------------------------------------------------------------------------
(* LeaveSession *)

\* LeaveSession without the host test
LeaveStart_noHostTest(p) ==
    /\ CanStart(p)
    /\ \E sid \in DOMAIN sessions, u \in Members :
         LET s == RowOf(sessions[sid])
             c == checkCancellationPolicy(s, now)
             me == [Idle EXCEPT !.op = "leave", !.sid = sid, !.uid = u, !.sess = s]
         IN  /\ procs' = [procs EXCEPT ![p] =
                    IF c # "ok" THEN [me EXCEPT !.pc = "done", !.res = c]
                    ELSE [me EXCEPT !.pc = "l_read"]]
             /\ scn' = ScnAfter("leave", sid, u, NoReq)
             /\ served' = Served
    /\ UNCHANGED <<sessions, ts, now, mode, okJoin, fin, fout>>

\* GetByID, the host test and the cancellation policy
LeaveStart(p) ==
    /\ CanStart(p)
    /\ \E sid \in DOMAIN sessions, u \in Members :
         LET s == RowOf(sessions[sid])
             c == IF s.host = u THEN "host_cannot_leave"
                  ELSE checkCancellationPolicy(s, now)
             me == [Idle EXCEPT !.op = "leave", !.sid = sid, !.uid = u, !.sess = s]
         IN  /\ procs' = [procs EXCEPT ![p] =
                    IF c # "ok" THEN [me EXCEPT !.pc = "done", !.res = c]
                    ELSE [me EXCEPT !.pc = "l_read"]]
             /\ scn' = ScnAfter("leave", sid, u, NoReq)
             /\ served' = Served
    /\ UNCHANGED <<sessions, ts, now, mode, okJoin, fin, fout>>

\* GetParticipants and the membership test
LeaveRead(p) ==
    /\ procs[p].pc = "l_read"
    /\ LET me == procs[p]
           parts == GetParticipants(me.sid)
           in == isParticipantInSession(parts, me.uid)
       IN  procs' = IF ~in.found THEN Finish(p, "not_participating")
                    ELSE [procs EXCEPT ![p].pc = "l_cancel", ![p].parts = parts,
                                       ![p].st = in.status]
    /\ UNCHANGED <<sessions, ts, now, mode, served, okJoin, scn, fin, fout>>

\* LeaveSession that promotes or reopens whatever the leaver's status was
LeaveCancel_anyStatus(p) ==
    /\ procs[p].pc = "l_cancel"
    /\ LET me == procs[p]
           fp == FirstPending(me.parts)
       IN  IF RowsOf(me.sid, me.uid) = {}
           THEN /\ procs' = Finish(p, "participant_not_found")
                /\ sessions' = sessions
           ELSE /\ sessions' = UpdateParticipantStatus(sessions, me.sid, me.uid,
                                                       "cancelled", 0, now)
                /\ procs' = IF fp # 0
                            THEN [procs EXCEPT ![p].pc = "l_promote", ![p].i = fp]
                            ELSE IF me.sess.status = "full"
                            THEN [procs EXCEPT ![p].pc = "l_update"]
                            ELSE Finish(p, "ok")
    /\ UNCHANGED <<ts, now, mode, served, okJoin, scn, fin, fout>>

\* UpdateParticipantStatus(cancelled), then the choice of what follows
LeaveCancel(p) ==
    /\ procs[p].pc = "l_cancel"
    /\ LET me == procs[p]
           fp == FirstPending(me.parts)
       IN  IF RowsOf(me.sid, me.uid) = {}
           THEN /\ procs' = Finish(p, "participant_not_found")
                /\ sessions' = sessions
           ELSE /\ sessions' = UpdateParticipantStatus(sessions, me.sid, me.uid,
                                                       "cancelled", 0, now)
                /\ procs' = IF me.st = "confirmed" /\ fp # 0
                            THEN [procs EXCEPT ![p].pc = "l_promote", ![p].i = fp]
                            ELSE IF me.st = "confirmed" /\ me.sess.status = "full"
                            THEN [procs EXCEPT ![p].pc = "l_update"]
                            ELSE Finish(p, "ok")
    /\ UNCHANGED <<ts, now, mode, served, okJoin, scn, fin, fout>>

\* UpdateParticipantStatus(confirmed) for the first pending entry read
LeavePromote(p) ==
    /\ procs[p].pc = "l_promote"
    /\ LET me == procs[p]
           u == me.parts[me.i].user
       IN  IF RowsOf(me.sid, u) = {}
           THEN /\ procs' = Finish(p, "participant_not_found")
                /\ UNCHANGED <<sessions, ts>>
           ELSE /\ sessions' = UpdateParticipantStatus(sessions, me.sid, u, "confirmed",
                                                       ts[me.sid] + 1, now)
                /\ ts' = [ts EXCEPT ![me.sid] = @ + 1]
                /\ procs' = Finish(p, "ok")
    /\ UNCHANGED <<now, mode, served, okJoin, scn, fin, fout>>

\* sessionRepo.Update with the session read at the start, status open
LeaveUpdate(p) ==
    /\ procs[p].pc = "l_update"
    /\ LET me == procs[p]
       IN  /\ sessions' = RepoUpdate(sessions, me.sid,
                                     [me.sess EXCEPT !.status = "open"], <<>>)
           /\ procs' = Finish(p, "ok")
    /\ UNCHANGED <<ts, now, mode, served, okJoin, scn, fin, fout>>

----------------------------------------------------------------------------
(* CancelSession *)

\* the loop filter taking the confirmed entries only
NextNotCancelled_confirmedOnly(parts, i) ==
    LET idx == {k \in DOMAIN parts : k >= i /\ parts[k].status = "confirmed"}
    IN  IF idx = {} THEN 0 ELSE CHOOSE k \in idx : \A j \in idx : k <= j

\* the next entry of the list, from index i on, that is not cancelled; 0 when
\* there is none
NextNotCancelled(parts, i) ==
    LET idx == {k \in DOMAIN parts : k >= i /\ parts[k].status # "cancelled"}
    IN  IF idx = {} THEN 0 ELSE CHOOSE k \in idx : \A j \in idx : k <= j

\* CancelSession without the host test
CancelStart_noHostTest(p) ==
    /\ CanStart(p)
    /\ \E sid \in DOMAIN sessions, u \in Callers :
         LET s == RowOf(sessions[sid])
             c == IF s.status = "cancelled" \/ s.status = "completed"
                  THEN "already_terminal" ELSE "ok"
             me == [Idle EXCEPT !.op = "cancel", !.sid = sid, !.uid = u, !.sess = s]
         IN  /\ procs' = [procs EXCEPT ![p] =
                    IF c # "ok" THEN [me EXCEPT !.pc = "done", !.res = c]
                    ELSE [me EXCEPT !.pc = "x_update"]]
             /\ scn' = ScnAfter("cancel", sid, u, NoReq)
             /\ served' = Served
    /\ UNCHANGED <<sessions, ts, now, mode, okJoin, fin, fout>>

\* GetByID, the host test and the status test
CancelStart(p) ==
    /\ CanStart(p)
    /\ \E sid \in DOMAIN sessions, u \in Callers :
         LET s == RowOf(sessions[sid])
             c == IF s.host # u THEN "not_host"
                  ELSE IF s.status = "cancelled" \/ s.status = "completed"
                  THEN "already_terminal" ELSE "ok"
             me == [Idle EXCEPT !.op = "cancel", !.sid = sid, !.uid = u, !.sess = s]
         IN  /\ procs' = [procs EXCEPT ![p] =
                    IF c # "ok" THEN [me EXCEPT !.pc = "done", !.res = c]
                    ELSE [me EXCEPT !.pc = "x_update"]]
             /\ scn' = ScnAfter("cancel", sid, u, NoReq)
             /\ served' = Served
    /\ UNCHANGED <<sessions, ts, now, mode, okJoin, fin, fout>>

\* sessionRepo.Update with the session read at the start, status cancelled
CancelUpdate(p) ==
    /\ procs[p].pc = "x_update"
    /\ LET me == procs[p]
       IN  /\ sessions' = RepoUpdate(sessions, me.sid,
                                     [me.sess EXCEPT !.status = "cancelled"], <<>>)
           /\ procs' = [procs EXCEPT ![p].pc = "x_read"]
    /\ UNCHANGED <<ts, now, mode, served, okJoin, scn, fin, fout>>

\* GetParticipants
CancelRead(p) ==
    /\ procs[p].pc = "x_read"
    /\ LET me == procs[p]
           parts == GetParticipants(me.sid)
           k == NextNotCancelled(parts, 1)
       IN  procs' = IF k = 0 THEN Finish(p, "ok")
                    ELSE [procs EXCEPT ![p].pc = "x_loop", ![p].parts = parts, ![p].i = k]
    /\ UNCHANGED <<sessions, ts, now, mode, served, okJoin, scn, fin, fout>>

\* one UpdateParticipantStatus(cancelled) of the loop over the entries read
CancelLoop(p) ==
    /\ procs[p].pc = "x_loop"
    /\ LET me == procs[p]
           u == me.parts[me.i].user
           k == NextNotCancelled(me.parts, me.i + 1)
       IN  IF RowsOf(me.sid, u) = {}
           THEN /\ procs' = Finish(p, "participant_not_found")
                /\ sessions' = sessions
           ELSE /\ sessions' = UpdateParticipantStatus(sessions, me.sid, u, "cancelled",
                                                       0, now)
                /\ procs' = IF k = 0 THEN Finish(p, "ok")
                            ELSE [procs EXCEPT ![p].i = k]
    /\ UNCHANGED <<ts, now, mode, served, okJoin, scn, fin, fout>>

----------------------------------------------------------------------------
(* UpdateSession *)

\* a request leaves out a field by giving its zero value
UpdateReq(m, st, a, d, cs) ==
    [venue |-> 0, date |-> 0, start |-> 0, end |-> 0, courts |-> cs, max |-> m,
     allow |-> a, dl |-> d, status |-> st]

UpdateReqs ==
    IF mode = "conflict"
    THEN {UpdateReq(0, "", TRUE, 0, <<2>>), UpdateReq(0, "completed", TRUE, 0, <<>>)}
    ELSE IF mode = "conc"
    THEN {UpdateReq(3, "", TRUE, 0, <<>>), UpdateReq(0, "cancelled", TRUE, 0, <<>>),
          UpdateReq(0, "", TRUE, 0, <<2>>)}
    ELSE {UpdateReq(m, "", TRUE, 0, <<>>) : m \in {2, 3}}
         \cup {UpdateReq(0, st, TRUE, 0, <<>>) : st \in {"full", "cancelled", "completed"}}
         \cup {UpdateReq(0, "", FALSE, 0, <<>>), UpdateReq(0, "", TRUE, 0, <<2>>)}

\* GetByID: the play_sessions row
UpdateStart(p) ==
    /\ CanStart(p)
    /\ \E sid \in DOMAIN sessions, u \in Callers, rq \in UpdateReqs :
         /\ procs' = [procs EXCEPT ![p] =
                [Idle EXCEPT !.pc = "u_read", !.op = "update", !.sid = sid, !.uid = u,
                             !.req = rq, !.sess = RowOf(sessions[sid])]]
         /\ scn' = ScnAfter("update", sid, u, rq)
         /\ served' = Served
    /\ UNCHANGED <<sessions, ts, now, mode, okJoin, fin, fout>>

\* the fields of the request written over the session read
ApplyUpdate(s, rq) ==
    [s EXCEPT !.max = IF rq.max > 0 THEN rq.max ELSE @,
              !.status = IF rq.status # "" THEN rq.status ELSE @,
              !.allow = rq.allow,
              !.dl = IF rq.dl > 0 THEN rq.dl ELSE @]

\* GetByID: the participants; then the host test, canUpdateSession and the
\* fields of the request
UpdateRead(p) ==
    /\ procs[p].pc = "u_read"
    /\ LET me == procs[p]
           rq == me.req
           parts == GetParticipants(me.sid)
           c == IF me.sess.host # me.uid THEN "not_host"
                ELSE IF canUpdateSession(me.sess, now) # "ok"
                THEN canUpdateSession(me.sess, now)
                ELSE IF rq.max > 0
                THEN validateParticipantLimit(countParticipantsByStatus(parts).confirmed,
                                              rq.max)
                ELSE "ok"
       IN  procs' = IF c # "ok" THEN Finish(p, c)
                    ELSE [procs EXCEPT ![p].parts = parts,
                                       ![p].i = 1,
                                       ![p].pc = IF Len(rq.courts) > 0 THEN "u_conflict"
                                                 ELSE "u_write"]
    /\ UNCHANGED <<sessions, ts, now, mode, served, okJoin, scn, fin, fout>>

\* one iteration of the loop over req.CourtIDs: checkSessionConflict
UpdateConflict(p) ==
    /\ procs[p].pc = "u_conflict"
    /\ LET me == procs[p]
           s == ApplyUpdate(me.sess, me.req)
       IN  \E listed \in ListResults(s.date) :
             LET c == checkSessionConflict(s.date, s.start, s.end,
                                           me.req.courts[me.i], listed)
             IN  procs' = IF c # "ok" THEN Finish(p, c)
                          ELSE IF me.i < Len(me.req.courts)
                               THEN [procs EXCEPT ![p].i = me.i + 1]
                               ELSE [procs EXCEPT ![p].pc = "u_write"]
    /\ UNCHANGED <<sessions, ts, now, mode, served, okJoin, scn, fin, fout>>

\* sessionRepo.Update
UpdateWrite(p) ==
    /\ procs[p].pc = "u_write"
    /\ LET me == procs[p]
       IN  /\ sessions' = RepoUpdate(sessions, me.sid, ApplyUpdate(me.sess, me.req),
                                     me.req.courts)
           /\ procs' = Finish(p, "ok")
    /\ UNCHANGED <<ts, now, mode, served, okJoin, scn, fin, fout>>

----------------------------------------------------------------------------
(* The response is sent and the worker is free again *)
Return(p) ==
    /\ procs[p].pc = "done"
    /\ procs' = [procs EXCEPT ![p] = Idle]
    /\ UNCHANGED <<sessions, ts, now, mode, served, okJoin, scn, fin, fout>>

(* The clock reaches the next instant of TimePoints *)
Tick ==
    /\ \E t \in TimePoints :
         /\ t > now
         /\ \A t2 \in TimePoints : t2 > now => t <= t2
         /\ now' = t
    /\ UNCHANGED <<sessions, ts, procs, mode, served, okJoin, scn, fin, fout>>

Create(p) == CreateStart(p) \/ CreateConflict(p) \/ CreateInsert(p) \/ CreateCourt(p)
             \/ CreateHost(p)
Join(p) == JoinStart(p) \/ JoinRead(p) \/ JoinAdd(p) \/ JoinUpdate(p)
Leave(p) == LeaveStart(p) \/ LeaveRead(p) \/ LeaveCancel(p) \/ LeavePromote(p)
            \/ LeaveUpdate(p)
Cancel(p) == CancelStart(p) \/ CancelUpdate(p) \/ CancelRead(p) \/ CancelLoop(p)
Update(p) == UpdateStart(p) \/ UpdateRead(p) \/ UpdateConflict(p) \/ UpdateWrite(p)

InitStore ==
    /\ sessions = <<>>
    /\ ts = <<>>
    /\ now = T0
    /\ procs = [p \in Procs |-> Idle]
    /\ served = 0
    /\ okJoin = {}
    /\ scn = 0
    /\ fin = <<>>
    /\ fout = <<>>

Next ==
    \/ \E p \in Procs : Create(p) \/ Join(p) \/ Leave(p) \/ Cancel(p) \/ Update(p)
                        \/ Return(p)
    \/ Tick

\* one session, requests served one at a time
RosterInit == InitStore /\ mode = "roster"
RosterSpec == RosterInit /\ [][Next]_vars

\* one session, NProcs requests served concurrently
ConcNext ==
    \E p \in Procs : Create(p) \/ Join(p) \/ Leave(p) \/ Cancel(p) \/ Update(p)
                     \/ Return(p)

Init == InitStore /\ mode = "conc"
Spec == Init /\ [][ConcNext]_vars

\* one session, Join and Leave requests served one at a time
PromoNext ==
    \E p \in Procs : Create(p) \/ Join(p) \/ Leave(p) \/ Return(p)

PromoInit == InitStore /\ mode = "promo"
PromoSpec == PromoInit /\ [][PromoNext]_vars

\* several sessions on one date, requests served one at a time
ConflictNext ==
    \E p \in Procs : Create(p) \/ Cancel(p) \/ Update(p) \/ Return(p)

ConflictInit == InitStore /\ mode = "conflict"
ConflictSpec == ConflictInit /\ [][ConflictNext]_vars

\* one date filled with cancelled sessions, requests served one at a time
BulkNext ==
    \E p \in Procs : Create(p) \/ Cancel(p) \/ Return(p)

BulkInit == InitStore /\ mode = "bulk"
BulkSpec == BulkInit /\ [][BulkNext]_vars

\* sessions created one at a time on a database whose inserts may fail
FaultNext ==
    \E p \in Procs : Create(p) \/ CreateCourtFail(p) \/ CreateHostFail(p) \/ Return(p)

FaultInit == InitStore /\ mode = "fault"
FaultSpec == FaultInit /\ [][FaultNext]_vars

\* one session, Join and Leave requests served concurrently
RaceNext ==
    \E p \in Procs : Create(p) \/ Join(p) \/ Leave(p) \/ Return(p)

RaceInit == InitStore /\ mode = "race"
RaceSpec == RaceInit /\ [][RaceNext]_vars

\* one session of three places, Leave requests served concurrently while two
\* participants are pending
LeavesInit == InitStore /\ mode = "leaves"
LeavesSpec == LeavesInit /\ [][RaceNext]_vars

\* several sessions on one date, Create requests served concurrently
CreatesNext ==
    \E p \in Procs : Create(p) \/ Return(p)

CreatesInit == InitStore /\ mode = "creates"
CreatesSpec == CreatesInit /\ [][CreatesNext]_vars

\* the overlap test of checkSessionConflict on two windows, each taken as the
\* proposed and as the existing one
Clock == {600, 630, 660, 690, 720}

Windows == {w \in [date : {SessDay, SessDay + 1}, start : Clock, end : Clock] :
                w.start < w.end}

OverlapApply ==
    /\ mode = "pure" /\ fout = <<>>
    /\ LET a == fin[1]
           b == fin[2]
       IN  fout' = <<Overlaps(a.date, a.start, a.end, b.date, b.start, b.end),
                     Overlaps(b.date, b.start, b.end, a.date, a.start, a.end)>>
    /\ UNCHANGED <<sessions, ts, now, procs, mode, served, okJoin, scn, fin>>

PureInit ==
    /\ sessions = <<>> /\ ts = <<>> /\ now = T0 /\ procs = [p \in Procs |-> Idle]
    /\ served = 0 /\ okJoin = {} /\ scn = 0
    /\ mode = "pure"
    /\ fin \in Windows \X Windows
    /\ fout = <<>>

PureSpec == PureInit /\ [][OverlapApply]_vars

\* the validation of CreateSession on the open ranges of venue 2, for a date,
\* a start and an end time of day
ValClock == {480, 600, 615, 660, 1305, 1320, 1350}

ValDates == {Today - 1, Today, SessDay, Today + DaysIn3Months + 1}

ValidateApply ==
    /\ mode = "validate" /\ fout = <<>>
    /\ fout' = <<ValidateRanges(VenueTable[2].openRange, 1, fin.date, fin.start,
                                fin.end, now)>>
    /\ UNCHANGED <<sessions, ts, now, procs, mode, served, okJoin, scn, fin>>

ValidatorInit ==
    /\ sessions = <<>> /\ ts = <<>> /\ now = T0 /\ procs = [p \in Procs |-> Idle]
    /\ served = 0 /\ okJoin = {} /\ scn = 0
    /\ mode = "validate"
    /\ fin \in [date : ValDates, start : ValClock, end : ValClock]
    /\ fout = <<>>

ValidatorSpec == ValidatorInit /\ [][ValidateApply]_vars

----------------------------------------------------------------------------
(* Properties *)

Confirmed(sid) == CountIf(sessions[sid].parts, "confirmed")

Quiet == \A p \in Procs : procs[p].pc \in {"idle", "done"}

Done(p, op) == procs[p].op = op /\ procs[p].pc = "done"

\* the status of user u in a list of participants that holds u once
StatusIn(parts, u) == parts[CHOOSE k \in DOMAIN parts : parts[k].user = u].status

\* C1: the number of confirmed participants of a session never exceeds its
\* max_participants, under every interleaving of concurrent JoinSession calls.
C1_Capacity ==
    \A sid \in DOMAIN sessions : Confirmed(sid) <= sessions[sid].max

\* C2: a JoinSession call received after a JoinSession of the same user on
\* the same session has succeeded never inserts a participant and never
\* succeeds.
C2_NoDoubleJoin ==
    \A p \in Procs :
        procs[p].op = "join" /\ procs[p].late =>
            /\ procs[p].pc \notin {"j_add", "j_update"}
            /\ procs[p].pc = "done" =>
                   /\ procs[p].res \in {"already_joined", "previously_cancelled",
                                        "not_joinable", "already_started"}
                   /\ Cardinality(RowsOf(procs[p].sid, procs[p].uid)) = 1

\* a user who joined and left asks to join again and is turned away
C2_Witness ==
    \E p \in Procs : /\ Done(p, "join") /\ procs[p].late
                     /\ procs[p].res = "previously_cancelled"

\* C3: a session never holds two participant rows of one user.
C3_OneRowPerUser ==
    \A sid \in DOMAIN sessions, u \in Users : Cardinality(RowsOf(sid, u)) <= 1

\* the users pending in a list of participants, and the one of them with the
\* earliest joined_at
PendingIn(parts) == {parts[k].user : k \in {j \in DOMAIN parts : parts[j].status = "pending"}}

EarliestPending(parts) ==
    LET k == CHOOSE k \in DOMAIN parts :
                 /\ parts[k].status = "pending"
                 /\ \A j \in DOMAIN parts :
                        parts[j].status = "pending" => parts[k].joinedAt <= parts[j].joinedAt
    IN  parts[k].user

\* a LeaveSession of a confirmed participant that has returned without error,
\* on a session read as full
ConfirmedLeft(p) ==
    /\ Done(p, "leave") /\ procs[p].res = "ok"
    /\ procs[p].st = "confirmed"
    /\ procs[p].sess.status = "full"

\* C4: when a confirmed participant has left a full session with pending
\* participants, the pending participant with the earliest joined_at is
\* confirmed, every other pending participant is still pending and the session
\* is still full.
C4_PromotionOrder ==
    \A p \in Procs :
        ConfirmedLeft(p) /\ PendingIn(procs[p].parts) # {} =>
            LET before == procs[p].parts
                after == sessions[procs[p].sid].parts
            IN  /\ StatusIn(after, EarliestPending(before)) = "confirmed"
                /\ \A u \in PendingIn(before) \ {EarliestPending(before)} :
                       StatusIn(after, u) = "pending"
                /\ StatusIn(after, procs[p].uid) = "cancelled"
                /\ sessions[procs[p].sid].status = "full"

\* a confirmed participant has left a full session where two were pending
C4_Witness ==
    \E p \in Procs : /\ ConfirmedLeft(p)
                     /\ Cardinality(PendingIn(procs[p].parts)) >= 2

\* C5: a LeaveSession that has returned without error on a session read as
\* full, with no pending participant, leaves the session open.
C5_ReopenOnEmptyWaitlist ==
    \A p \in Procs :
        /\ Done(p, "leave") /\ procs[p].res = "ok"
        /\ procs[p].sess.status = "full"
        /\ PendingIn(procs[p].parts) = {}
        => sessions[procs[p].sid].status = "open"

\* C6: the states of the scenario, each taken when its request has returned:
\* Create by the host, Join by X, Join by Y, Leave by X, Cancel by the host.
C6_Scenario ==
    Quiet /\ scn >= 1 =>
        LET s == sessions[1]
            Is(u, st) == Cardinality(RowsOf(1, u)) = 1 /\ StatusIn(s.parts, u) = st
            Absent(u) == RowsOf(1, u) = {}
        IN  /\ scn = 1 => /\ Is(ScnHost, "confirmed") /\ Absent(ScnX) /\ Absent(ScnY)
                          /\ s.status = "open"
            /\ scn = 2 => /\ Is(ScnHost, "confirmed") /\ Is(ScnX, "confirmed")
                          /\ Absent(ScnY) /\ s.status = "full"
            /\ scn = 3 => /\ Is(ScnHost, "confirmed") /\ Is(ScnX, "confirmed")
                          /\ Is(ScnY, "pending") /\ s.status = "full"
            /\ scn = 4 => /\ Is(ScnHost, "confirmed") /\ Is(ScnX, "cancelled")
                          /\ Is(ScnY, "confirmed") /\ s.status = "full"
            /\ scn = 5 => /\ Is(ScnHost, "cancelled") /\ Is(ScnX, "cancelled")
                          /\ Is(ScnY, "cancelled") /\ s.status = "cancelled"
            /\ \A p \in Procs : procs[p].pc = "done" => procs[p].res = "ok"

\* the host's CancelSession, the last request of the scenario, has returned
C6_Witness == scn = 5 /\ \E p \in Procs : Done(p, "cancel")

\* C7: the overlap test gives the same answer with the two windows exchanged,
\* never reports two windows of one date that touch, and reports two windows
\* of one date exactly when each starts before the other ends.
C7_OverlapSymmetricHalfOpen ==
    fout # <<>> =>
        LET a == fin[1]
            b == fin[2]
        IN  /\ fout[1] = fout[2]
            /\ a.date = b.date /\ (a.end = b.start \/ b.end = a.start) => ~fout[1]
            /\ a.date = b.date => (fout[1] <=> (a.start < b.end /\ b.start < a.end))

\* the test was applied to two windows of one date, the first ending when the
\* second starts
C7_Witness ==
    /\ fout # <<>>
    /\ fin[1].date = fin[2].date /\ fin[1].end = fin[2].start

\* the sessions among the first n of the store that are not cancelled, are on
\* the date of request rq, share a court with it and overlap its window
Clashing(rq, n) ==
    {i \in 1..n : /\ sessions[i].status # "cancelled"
                  /\ sessions[i].date = rq.date
                  /\ sessions[i].courts \cap {rq.courts[k] : k \in DOMAIN rq.courts} # {}
                  /\ sessions[i].start < rq.end /\ rq.start < sessions[i].end}

\* C8: a CreateSession that passed the validation of its times while a
\* session created before, not cancelled, holds one of its courts on its date
\* in an overlapping window, is rejected as court booked and writes nothing.
C8_SecondCreateRejected ==
    \A p \in Procs :
        /\ procs[p].op = "create"
        /\ procs[p].pc \notin {"idle", "c_conflict"}
        /\ procs[p].pc = "done" => procs[p].res \in {"ok", "court_booked"}
        /\ Clashing(procs[p].req, procs[p].n0) # {}
        => /\ procs[p].pc = "done" /\ procs[p].res = "court_booked"
           /\ Len(sessions) = procs[p].n0

\* C9: a CreateSession or UpdateSession is rejected as court booked only when
\* a session that is not cancelled holds one of the requested courts on that
\* date in an overlapping window.
C9_PerCourt ==
    \A p \in Procs :
        /\ procs[p].op \in {"create", "update"}
        /\ procs[p].pc = "done" /\ procs[p].res = "court_booked"
        => Clashing([procs[p].req EXCEPT
                         !.date = IF procs[p].op = "update" THEN procs[p].sess.date ELSE @,
                         !.start = IF procs[p].op = "update" THEN procs[p].sess.start ELSE @,
                         !.end = IF procs[p].op = "update" THEN procs[p].sess.end ELSE @],
                    Len(sessions)) # {}

\* the sessions of the store on the date of request rq whose window overlaps
\* its window, whatever their courts
Overlapping(rq) ==
    {i \in DOMAIN sessions : /\ sessions[i].date = rq.date
                             /\ sessions[i].start < rq.end /\ rq.start < sessions[i].end}

\* C10: a CreateSession rejected as court booked has found an overlapping
\* session that is not cancelled: cancelled sessions alone never reject it.
C10_CancelledNoConflict ==
    \A p \in Procs :
        Done(p, "create") /\ procs[p].res = "court_booked" =>
            \E i \in Overlapping(procs[p].req) : sessions[i].status # "cancelled"

\* a CreateSession has succeeded for the court, date and window of a session
\* cancelled before
C10_Witness ==
    \E p \in Procs :
        /\ Done(p, "create") /\ procs[p].res = "ok"
        /\ \E i \in 1..procs[p].n0 :
              /\ sessions[i].status = "cancelled"
              /\ sessions[i].date = procs[p].req.date
              /\ sessions[i].start = procs[p].req.start
              /\ sessions[i].end = procs[p].req.end
              /\ sessions[i].courts = sessions[procs[p].sid].courts

Terminal == {"cancelled", "completed"}

\* C11: a stored status that is cancelled or completed is never replaced by
\* another value, under every interleaving of the requests.
C11_TerminalIsFinal ==
    [][\A sid \in DOMAIN sessions :
           sessions[sid].status \in Terminal =>
               sessions'[sid].status = sessions[sid].status]_vars

\* C12: a JoinSession, LeaveSession or UpdateSession on a session whose status
\* is cancelled or completed is rejected.  Requests are served one at a time,
\* so the status read at the start of the call is the stored one, and a call
\* that ends with an error has written nothing.
C12_TerminalRejects ==
    \A p \in Procs :
        /\ procs[p].pc = "done"
        /\ procs[p].op \in {"join", "leave", "update"}
        /\ procs[p].sess.status \in Terminal
        => procs[p].res # "ok"

\* C13: when CancelSession has returned without error, the session is
\* cancelled and so is every participant; the participants that were pending
\* keep their joined_at, which a promotion would have rewritten.
C13_CancelAll ==
    \A p \in Procs :
        Done(p, "cancel") /\ procs[p].res = "ok" =>
            LET after == sessions[procs[p].sid].parts
                before == procs[p].parts
            IN  /\ sessions[procs[p].sid].status = "cancelled"
                /\ \A k \in DOMAIN after : after[k].status = "cancelled"
                /\ \A k \in DOMAIN before :
                       before[k].status = "pending" =>
                           \E j \in DOMAIN after : /\ after[j].user = before[k].user
                                                   /\ after[j].joinedAt = before[k].joinedAt

\* the host has cancelled a session that had a pending participant
C13_Witness ==
    \E p \in Procs :
        /\ Done(p, "cancel") /\ procs[p].res = "ok"
        /\ PendingIn(procs[p].parts) # {}

\* C14: a CancelSession by a user who is not the host ends as not host, one by
\* the host on a cancelled or completed session ends as already terminal, and
\* the step that rejects it writes nothing.
C14_CancelGuards ==
    /\ [](\A p \in Procs :
             Done(p, "cancel") =>
                 /\ procs[p].sess.host # procs[p].uid => procs[p].res = "not_host"
                 /\ procs[p].sess.host = procs[p].uid /\ procs[p].sess.status \in Terminal
                        => procs[p].res = "already_terminal")
    /\ [][\A p \in Procs :
             /\ procs'[p].op = "cancel" /\ procs'[p].pc = "done"
             /\ procs'[p].res \in {"not_host", "already_terminal"}
             => sessions' = sessions]_vars

\* a CancelSession of the host on a session already cancelled was rejected
C14_Witness ==
    \E p \in Procs :
        /\ Done(p, "cancel") /\ procs[p].res = "already_terminal"
        /\ sessions[procs[p].sid].status = "cancelled"

\* C15: a JoinSession that has returned without error has inserted the user as
\* confirmed when fewer than max_participants of the participants it read were
\* confirmed, and as pending otherwise.
C15_JoinStatus ==
    \A p \in Procs :
        Done(p, "join") /\ procs[p].res = "ok" =>
            StatusIn(sessions[procs[p].sid].parts, procs[p].uid) =
                IF Cardinality({k \in DOMAIN procs[p].parts :
                                    procs[p].parts[k].status = "confirmed"})
                       < procs[p].sess.max
                THEN "confirmed" ELSE "pending"

\* a user has joined as confirmed a session whose list was as long as
\* max_participants, one entry of it being cancelled
C15_Witness ==
    \E p \in Procs :
        /\ Done(p, "join") /\ procs[p].res = "ok"
        /\ StatusIn(sessions[procs[p].sid].parts, procs[p].uid) = "confirmed"
        /\ Len(procs[p].parts) >= procs[p].sess.max
        /\ \E k \in DOMAIN procs[p].parts : procs[p].parts[k].status = "cancelled"

\* C16: a JoinSession that has returned without error leaves the session full
\* when it inserted a confirmed participant that made the confirmed count
\* reach max_participants, and with the status it read otherwise.
C16_FullOnCapacity ==
    \A p \in Procs :
        Done(p, "join") /\ procs[p].res = "ok" =>
            LET c == Cardinality({k \in DOMAIN procs[p].parts :
                                      procs[p].parts[k].status = "confirmed"})
                st == StatusIn(sessions[procs[p].sid].parts, procs[p].uid)
            IN  sessions[procs[p].sid].status =
                    IF st = "confirmed" /\ c + 1 = procs[p].sess.max
                    THEN "full" ELSE procs[p].sess.status

\* a join has filled the last place of an open session
C16_Witness ==
    \E p \in Procs :
        /\ Done(p, "join") /\ procs[p].res = "ok"
        /\ procs[p].sess.status = "open"
        /\ sessions[procs[p].sid].status = "full"

\* C17: a JoinSession received when the status is neither open nor full, or
\* after the start of the session, is rejected by its first step, which writes
\* nothing; a JoinSession that returns without error on a session read as
\* full has inserted the user as pending.
C17_JoinGuards ==
    [][\A p \in Procs :
          /\ procs[p].pc = "idle" /\ procs'[p].op = "join" =>
                LET s == procs'[p].sess
                IN  s.status \notin {"open", "full"} \/ now > DateTime(s.date, s.start)
                    => /\ procs'[p].pc = "done"
                       /\ procs'[p].res \in {"not_joinable", "already_started"}
                       /\ sessions' = sessions
          /\ /\ procs[p].pc # "done" /\ procs'[p].pc = "done"
             /\ procs'[p].op = "join" /\ procs'[p].res = "ok"
             /\ procs'[p].sess.status = "full"
             => StatusIn(sessions'[procs'[p].sid].parts, procs'[p].uid) = "pending"]_vars

\* C18: a LeaveSession of the host ends as host cannot leave and its step
\* writes nothing; the host of an open or full session whose CreateSession has
\* inserted the host's row holds one row, confirmed.
C18_HostStays ==
    /\ [](\A p \in Procs :
             Done(p, "leave") /\ procs[p].sess.host = procs[p].uid =>
                 procs[p].res = "host_cannot_leave")
    /\ [](\A sid \in DOMAIN sessions :
             /\ sessions[sid].status \in {"open", "full"}
             /\ ~\E p \in Procs : /\ procs[p].op = "create" /\ procs[p].sid = sid
                                  /\ procs[p].pc \in {"c_court", "c_host"}
             => /\ Cardinality(RowsOf(sid, sessions[sid].host)) = 1
                /\ StatusIn(sessions[sid].parts, sessions[sid].host) = "confirmed")
    /\ [][\A p \in Procs :
             /\ procs'[p].op = "leave" /\ procs'[p].pc = "done"
             /\ procs'[p].res = "host_cannot_leave"
             => sessions' = sessions]_vars

\* the host's LeaveSession on a full session was rejected
C18_Witness ==
    \E p \in Procs :
        /\ Done(p, "leave") /\ procs[p].res = "host_cannot_leave"
        /\ sessions[procs[p].sid].status = "full"

\* C19: a LeaveSession that passed the host test and the cancellation policy,
\* of a user who has no entry in the list read or whose entry is cancelled,
\* ends as not participating and leaves the participants as they were read.
C19_NotParticipating ==
    \A p \in Procs :
        /\ Done(p, "leave")
        /\ procs[p].res \notin {"host_cannot_leave", "cancellation_not_allowed",
                                "deadline_passed"}
        /\ \A k \in DOMAIN procs[p].parts :
               procs[p].parts[k].user = procs[p].uid =>
                   procs[p].parts[k].status = "cancelled"
        => /\ procs[p].res = "not_participating"
           /\ procs[p].parts # <<>> => sessions[procs[p].sid].parts = procs[p].parts

\* C20: a LeaveSession of a user who is not the host is rejected as
\* cancellation not allowed when allow_cancellation is false, and as deadline
\* passed when the clock is at or after the session date minus the deadline
\* hours.
C20_Deadline ==
    [][\A p \in Procs :
          procs[p].pc = "idle" /\ procs'[p].op = "leave" =>
              LET s == procs'[p].sess
              IN  s.host # procs'[p].uid =>
                      /\ ~s.allow => /\ procs'[p].pc = "done"
                                     /\ procs'[p].res = "cancellation_not_allowed"
                      /\ s.allow /\ s.dl # -1 /\ now >= s.date * MinPerDay - s.dl * 60
                             => /\ procs'[p].pc = "done"
                                /\ procs'[p].res = "deadline_passed"]_vars

\* C21: a CreateSession that has returned an error has left no session row
\* behind.
C21_NoPartialWrites ==
    \A p \in Procs :
        Done(p, "create") /\ procs[p].res # "ok" => Len(sessions) = procs[p].n0

Inside(rq, r) == r.open <= rq.start /\ rq.end <= r.close

\* C23: a CreateSession on an active venue with several open ranges, for a
\* window that lies inside one of them, is not rejected for the venue hours.
C23_AnyRange ==
    \A p \in Procs :
        /\ Done(p, "create")
        /\ VenueTable[procs[p].req.venue].status = "active"
        /\ Len(VenueTable[procs[p].req.venue].openRange) >= 2
        /\ \E k \in DOMAIN VenueTable[procs[p].req.venue].openRange :
               Inside(procs[p].req, VenueTable[procs[p].req.venue].openRange[k])
        => procs[p].res # "outside_hours"

\* the first four rules of the window validator in the order of the
\* specification: the error of the first rule that the input violates, "ok"
\* when it violates none
FirstRule(w, t) ==
    IF w.date < t \div MinPerDay THEN "too_soon"
    ELSE IF w.date > t \div MinPerDay + DaysIn3Months THEN "too_far"
    ELSE IF ~(w.start < w.end) THEN "inverted"
    ELSE IF w.end - w.start < MinSessionMinutes THEN "too_short"
    ELSE "ok"

\* C24: for a window that passes the rules on the date and the duration, the
\* validation on a venue open from open to close gives outside hours when
\* the window starts before open or ends after close, and passes otherwise.
C24_VenueHours ==
    fout # <<>> /\ FirstRule(fin, now) = "ok" =>
        LET r == VenueTable[2].openRange[1]
        IN  fout[1] = IF fin.start < r.open \/ fin.end > r.close
                      THEN "outside_hours" ELSE "ok"

\* C29: when the input violates one of the rules on the date and the duration,
\* the validation gives the error of the first of them in the order too soon,
\* too far ahead, inverted range, too short.
C29_RuleOrder ==
    fout # <<>> /\ FirstRule(fin, now) # "ok" => fout[1] = FirstRule(fin, now)

UpdateGuardErrors == {"not_host", "cancelled", "completed", "already_started"}

\* C25: an UpdateSession that passed the tests of the host, the status and the
\* start, and asks for fewer max_participants than there are confirmed
\* participants, ends as limit exceeded with max_participants as it was; the
\* confirmed participants of a session never outnumber its max_participants.
C25_MaxNotBelowConfirmed ==
    /\ \A p \in Procs :
           /\ Done(p, "update") /\ procs[p].res \notin UpdateGuardErrors
           /\ procs[p].req.max > 0 /\ procs[p].req.max < Confirmed(procs[p].sid)
           => /\ procs[p].res = "limit_exceeded"
              /\ RowOf(sessions[procs[p].sid]) = procs[p].sess
    /\ \A sid \in DOMAIN sessions : Confirmed(sid) <= sessions[sid].max

\* an UpdateSession that asked for fewer places than are taken was rejected
C25_Witness ==
    \E p \in Procs :
        /\ Done(p, "update") /\ procs[p].res = "limit_exceeded"
        /\ procs[p].req.max < Confirmed(procs[p].sid)

\* C26: the step of UpdateSession that tests the host, the status and the
\* start of the session ends the call with an error, writing nothing, when
\* the caller is not the host, the status is neither open nor full, or the
\* clock is after the start of the session.
C26_UpdateGuards ==
    [][\A p \in Procs :
          procs[p].pc = "u_read" /\ procs'[p].pc # "u_read" =>
              LET me == procs[p]
              IN  \/ me.sess.host # me.uid
                  \/ me.sess.status \notin {"open", "full"}
                  \/ now > DateTime(me.sess.date, me.sess.start)
                  => /\ procs'[p].pc = "done"
                     /\ procs'[p].res \in UpdateGuardErrors
                     /\ sessions' = sessions]_vars

\* the host's UpdateSession after the start of the session was rejected
C26_Witness ==
    \E p \in Procs :
        /\ Done(p, "update") /\ procs[p].res = "already_started"
        /\ procs[p].sess.host = procs[p].uid

\* C27: an UpdateSession that gives none of max_participants, status,
\* allow_cancellation, cancellation_deadline_hours and court ids, and has
\* returned without error, has left the stored session as it was read.
C27_OnlyProvidedFields ==
    \A p \in Procs :
        /\ Done(p, "update") /\ procs[p].res = "ok"
        /\ procs[p].req = UpdateReq(0, "", FALSE, 0, <<>>)
        => RowOf(sessions[procs[p].sid]) = procs[p].sess

\* C28: an UpdateSession with court ids that passed the tests before the
\* conflict check, while no other session that is not cancelled holds one of
\* these courts on the date of the session in an overlapping window, returns
\* without error.
C28_UpdateCourts ==
    \A p \in Procs :
        /\ Done(p, "update") /\ Len(procs[p].req.courts) > 0
        /\ procs[p].res \notin UpdateGuardErrors \cup {"limit_exceeded"}
        /\ Clashing([procs[p].req EXCEPT !.date = procs[p].sess.date,
                                         !.start = procs[p].sess.start,
                                         !.end = procs[p].sess.end],
                    Len(sessions)) \ {procs[p].sid} = {}
        => procs[p].res = "ok"

\* C30: the step of JoinSession that inserts the participant does so with a
\* confirmed count that is the current one.
C30_NoStaleCommit ==
    [][\A p \in Procs :
          procs[p].pc = "j_add" /\ procs'[p].pc # "j_add" =>
              procs[p].cnt = Confirmed(procs[p].sid)]_vars

Waiting(sid) == CountIf(sessions[sid].parts, "pending")

\* C34: whenever no call is in progress, a session whose stored status is
\* cancelled has no confirmed and no pending participant.
C34_CancelledHasNoOneIn ==
    Quiet => \A sid \in DOMAIN sessions :
                 sessions[sid].status = "cancelled" =>
                     Confirmed(sid) = 0 /\ Waiting(sid) = 0

\* C36: the write of JoinSession or LeaveSession that flips the session
\* between open and full changes the status of the stored session and leaves
\* every other field as it is in the store.
C36_FlipWritesStatusOnly ==
    [][\A p \in Procs :
          procs[p].pc \in {"j_update", "l_update"} /\ procs'[p].pc = "done" =>
              [RowOf(sessions'[procs[p].sid]) EXCEPT !.status = ""]
                  = [RowOf(sessions[procs[p].sid]) EXCEPT !.status = ""]]_vars

\* C37: whenever no call is in progress, a session that is open or full is
\* full exactly when its confirmed participants are at least max_participants.
C37_FullIffAtCapacity ==
    Quiet => \A sid \in DOMAIN sessions :
                 sessions[sid].status \in {"open", "full"} =>
                     (sessions[sid].status = "full"
                          <=> Confirmed(sid) >= sessions[sid].max)

\* C38: whenever no call is in progress, a session that is open or full and
\* has a pending participant has max_participants confirmed participants.
C38_NobodyWaitsByAFreeSlot ==
    Quiet => \A sid \in DOMAIN sessions :
                 sessions[sid].status \in {"open", "full"} /\ Waiting(sid) > 0 =>
                     Confirmed(sid) = sessions[sid].max

\* C39: the step of LeaveSession that cancels a participant read as pending
\* ends the call without error; it sets the status of that participant to
\* cancelled and leaves the session row, the courts, the confirmed count and
\* every other participant as they were.
C39_PendingLeave ==
    [][\A p \in Procs :
          procs[p].pc = "l_cancel" /\ procs[p].st = "pending"
          /\ procs'[p].pc # "l_cancel" =>
              LET sid == procs[p].sid
                  u == procs[p].uid
                  old == sessions[sid].parts
                  new == sessions'[sid].parts
              IN  /\ procs'[p].pc = "done" /\ procs'[p].res = "ok"
                  /\ RowOf(sessions'[sid]) = RowOf(sessions[sid])
                  /\ sessions'[sid].courts = sessions[sid].courts
                  /\ CountIf(new, "confirmed") = CountIf(old, "confirmed")
                  /\ Len(new) = Len(old)
                  /\ \A k \in DOMAIN old :
                         IF old[k].user = u
                         THEN new[k].user = u /\ new[k].status = "cancelled"
                         ELSE new[k] = old[k]]_vars

\* a pending participant has left
C39_Witness ==
    \E p \in Procs :
        /\ Done(p, "leave") /\ procs[p].res = "ok" /\ procs[p].st = "pending"
        /\ StatusIn(sessions[procs[p].sid].parts, procs[p].uid) = "cancelled"

PreconditionErrors ==
    {"not_joinable", "already_started", "already_joined", "previously_cancelled",
     "host_cannot_leave", "cancellation_not_allowed", "deadline_passed",
     "not_participating", "not_host", "already_terminal", "cancelled", "completed",
     "limit_exceeded", "court_booked"}

\* the positions of a call at which it has read and not yet written
ReadPositions == {"j_read", "l_read", "u_read", "u_conflict"}

\* C40: a JoinSession, LeaveSession, CancelSession or UpdateSession call ends
\* with a precondition error only at its start or at a position before its
\* first write, in a step that leaves the store unchanged; the steps that
\* lead to these positions leave the store unchanged.
C40_ErrorsBeforeWrites ==
    [][\A p \in Procs :
          /\ /\ procs[p].pc # "done" /\ procs'[p].pc = "done"
             /\ procs'[p].op \in {"join", "leave", "cancel", "update"}
             /\ procs'[p].res \in PreconditionErrors
             => /\ sessions' = sessions
                /\ procs[p].pc \in ReadPositions \cup {"idle"}
          /\ procs'[p].pc \in ReadPositions /\ procs'[p] # procs[p]
             => sessions' = sessions]_vars

\* a LeaveSession on a session that does not allow cancellation was turned away
C40_Witness ==
    \E p \in Procs :
        /\ Done(p, "leave") /\ procs[p].res = "cancellation_not_allowed"
        /\ Len(sessions[procs[p].sid].parts) > 1

\* C31: whenever no call is in progress after concurrent JoinSession and
\* LeaveSession calls, a session that is open or full is full exactly when
\* its confirmed participants equal max_participants.
C31_StatusFollowsCount ==
    Quiet => \A sid \in DOMAIN sessions :
                 sessions[sid].status \in {"open", "full"} =>
                     (sessions[sid].status = "full"
                          <=> Confirmed(sid) = sessions[sid].max)

\* user u has rows in the list and all of them are cancelled
Gone(parts, u) ==
    /\ \E k \in DOMAIN parts : parts[k].user = u
    /\ \A k \in DOMAIN parts : parts[k].user = u => parts[k].status = "cancelled"

\* C32: a participant whose status is cancelled stays cancelled in every step
\* of concurrent JoinSession and LeaveSession calls that inserts no
\* participant.
C32_CancelledIsFinal ==
    [][\A sid \in DOMAIN sessions :
          Len(sessions'[sid].parts) = Len(sessions[sid].parts) =>
              \A k \in DOMAIN sessions[sid].parts :
                  LET u == sessions[sid].parts[k].user
                  IN  Gone(sessions[sid].parts, u) => Gone(sessions'[sid].parts, u)]_vars

\* the users of a list that are pending there and confirmed in the store
Refilled(sid, parts) ==
    {parts[k].user : k \in {j \in DOMAIN parts : parts[j].status = "pending"}}
        \cap {sessions[sid].parts[k].user :
                  k \in {j \in DOMAIN sessions[sid].parts :
                             sessions[sid].parts[j].status = "confirmed"}}

\* C33: when the LeaveSession calls of two confirmed participants that read
\* the same list of participants, with at least two of them pending, have both
\* returned without error, two of these pending participants are confirmed
\* and the confirmed count is what it was in that list.
C33_BothSlotsRefilled ==
    \A p, q \in Procs :
        /\ p # q /\ Done(p, "leave") /\ Done(q, "leave")
        /\ procs[p].res = "ok" /\ procs[q].res = "ok"
        /\ procs[p].st = "confirmed" /\ procs[q].st = "confirmed"
        /\ procs[p].uid # procs[q].uid /\ procs[p].sid = procs[q].sid
        /\ procs[p].parts = procs[q].parts
        /\ CountIf(procs[p].parts, "pending") >= 2
        => /\ Cardinality(Refilled(procs[p].sid, procs[p].parts)) = 2
           /\ Confirmed(procs[p].sid) = CountIf(procs[p].parts, "confirmed")

\* C35: the store never holds two sessions that are not cancelled, share a
\* court and a date and have overlapping windows.
C35_NoDoubleBooking ==
    \A i, j \in DOMAIN sessions :
        /\ i # j
        /\ sessions[i].status # "cancelled" /\ sessions[j].status # "cancelled"
        /\ sessions[i].courts \cap sessions[j].courts # {}
        => ~Overlaps(sessions[i].date, sessions[i].start, sessions[i].end,
                     sessions[j].date, sessions[j].start, sessions[j].end)

====
